---- MODULE Spec2Model ----
(***************************************************************************)
(* State-machine model of the approval portal's core:                      *)
(*   - the toast de-duplicator        (src/src/pages/Dashboard.tsx 27-49)  *)
(*   - the application status poller  (src/src/pages/Dashboard.tsx 84-156) *)
(*   - the message list, its fetches and the send handler                  *)
(*                                    (src/src/pages/Messages.tsx)         *)
(* A backend call is two steps: the call is issued and the backend's       *)
(* answer is computed from the backend state of that moment; later the     *)
(* answer is delivered and the suspended async function resumes.  Between  *)
(* the two, anything else may run, so an answer can be stale on delivery.  *)
(***************************************************************************)
EXTENDS Integers, Sequences, FiniteSets, TLC

VARIABLES
    \* ---- toast de-duplicator (module scope of Dashboard.tsx)
    now,              \* wall clock, ms
    shownToasts,      \* the Set<string> of line 28
    timers,           \* pending setTimeout callbacks: [toastId, due]
    alerts,           \* toast.success / toast.error calls made, per toast id
    calls,            \* showUniqueToast calls made, per toast id
    \* ---- backend tables read by the status poller
    requestLog,       \* status history of the user's user_requests row
    adminAccess,      \* admin_access rows about the user
    \* ---- Dashboard component
    mounted,          \* the component instance is mounted, its effects live
    hasRequest,
    applicationStatus,
    rejectionReason,
    runs,             \* the checkStatus invocations, in start order
    ticks,            \* interval callbacks fired so far
    successToasts,    \* toast.success calls of checkStatus
    errorToasts,      \* toast.error calls of checkStatus
    navigations,      \* navigate("/") calls
    polled,           \* what the checkStatus runs that returned without error adopted
    newest,           \* what the most recently started run adopted, once it returned
    \* ---- backend table and push channel of the message page
    store,            \* rows of the messages table
    events,           \* change notifications not yet delivered, per subscription
    \* ---- Messages component
    msgMounted,       \* the component instance is mounted, its effects live
    subscribed,       \* the subscriptions that are open
    activation,       \* mounts of the Messages component so far
    messages,         \* useState of line 20
    fetches,          \* fetchMessages calls suspended at their query
    isModalOpen,      \* useState of line 22
    newMessage,       \* useState of line 23
    selectedFile,     \* useState of line 162
    send,             \* the handleSendMessage call in progress
    lastSend,         \* how the last handleSendMessage call ended
    sendCount,        \* handleSendMessage calls so far
    lastFetch,        \* the last fetchMessages call whose answer was installed
    \* ---- backend read by loadAdminUser, and the Messages state it sets
    directory,        \* the users supabase.auth.admin lists
    otherRequest,     \* status of the user_requests row of the other applicant
    currentUser,      \* useAuth().user
    adminUser,        \* useState of line 19
    isLoading,        \* useState of line 21
    resolves          \* the loadAdminUser invocations, in start order

toastVars == <<now, shownToasts, timers, alerts, calls>>
trackerVars == <<requestLog, adminAccess, mounted, hasRequest, applicationStatus,
                 rejectionReason, runs, ticks, successToasts, errorToasts,
                 navigations, polled, newest>>
lifeVars == <<msgMounted, subscribed, activation>>
messageVars == <<store, events, lifeVars, messages, fetches, isModalOpen,
                 newMessage, selectedFile, send, lastSend, sendCount, lastFetch>>
resolverVars == <<directory, otherRequest, currentUser, adminUser, isLoading, resolves>>
vars == <<toastVars, trackerVars, messageVars, resolverVars>>

Null == "null"

(***************************************************************************)
(* Toast de-duplicator                                                     *)
(***************************************************************************)
CooldownMs == 5000
MaxTime == 10000
MaxCalls == 3

ToastMessages == {"X", "k"}
ToastIds == {Null, "", "k"}
ToastTypes == {"success", "error"}
Delays == {2500, 5000}

\* const toastId = id || message
ToastId(message, id) == IF id = Null \/ id = "" THEN message ELSE id

ToastKeys == {ToastId(m, i) : m \in ToastMessages, i \in ToastIds}

RECURSIVE SumOver(_, _)
SumOver(f, S) ==
    IF S = {} THEN 0
    ELSE LET x == CHOOSE y \in S : TRUE IN f[x] + SumOver(f, S \ {x})

TotalCalls == SumOver(calls, ToastKeys)

Fire(type, toastId) ==
    alerts' = [alerts EXCEPT ![toastId][type] = @ + 1]

\* setTimeout(() => shownToasts.delete(toastId), 5000)
SetTimeoutDelete(toastId) ==
    timers' = timers \cup {[toastId |-> toastId, due |-> now + CooldownMs]}

\* mutant: the has() test of line 35 is lost, every call fires
showUniqueToastAlways(message, type, id) ==
    LET toastId == ToastId(message, id) IN
    /\ TotalCalls < MaxCalls
    /\ calls' = [calls EXCEPT ![toastId] = @ + 1]
    /\ shownToasts' = shownToasts \cup {toastId}
    /\ Fire(type, toastId)
    /\ SetTimeoutDelete(toastId)
    /\ UNCHANGED <<now, trackerVars, messageVars, resolverVars>>

showUniqueToast(message, type, id) ==
    LET toastId == ToastId(message, id) IN
    /\ TotalCalls < MaxCalls
    /\ calls' = [calls EXCEPT ![toastId] = @ + 1]
    /\ IF toastId \notin shownToasts
         THEN /\ shownToasts' = shownToasts \cup {toastId}
              /\ Fire(type, toastId)
              /\ SetTimeoutDelete(toastId)
         ELSE UNCHANGED <<shownToasts, alerts, timers>>
    /\ UNCHANGED <<now, trackerVars, messageVars, resolverVars>>

\* the timeout callback of line 45-47
TimerFire(t) ==
    /\ t \in timers
    /\ t.due <= now
    /\ shownToasts' = shownToasts \ {t.toastId}
    /\ timers' = timers \ {t}
    /\ UNCHANGED <<now, alerts, calls, trackerVars, messageVars, resolverVars>>

\* time passes; a due callback runs before the clock moves past it
Advance(d) ==
    /\ now + d <= MaxTime
    /\ \A t \in timers : now + d <= t.due
    /\ now' = now + d
    /\ UNCHANGED <<shownToasts, timers, alerts, calls, trackerVars, messageVars, resolverVars>>

InitToast ==
    /\ now = 0
    /\ shownToasts = {}
    /\ timers = {}
    /\ alerts = [k \in ToastKeys |-> [success |-> 0, error |-> 0]]
    /\ calls = [k \in ToastKeys |-> 0]

NextToast ==
    \/ \E m \in ToastMessages, ty \in ToastTypes, i \in ToastIds :
           showUniqueToast(m, ty, i)
    \/ \E t \in timers : TimerFire(t)
    \/ \E d \in Delays : Advance(d)

(***************************************************************************)
(* Application status poller                                               *)
(***************************************************************************)
MaxEvents == 3
MaxInFlight == 2

Statuses == {"pending", "approved", "rejected"}
Reasons == {"", "incomplete profile"}

\* the user's user_requests row now: its status, or "none" when there is no row
Request == requestLog[Len(requestLog)]

\* backend writes and interval ticks so far
Events == (Len(requestLog) - 1) + Cardinality(adminAccess) + ticks

\* the row is created, decided, reopened or deleted outside the component
RemoteChange(s) ==
    /\ Events < MaxEvents
    /\ s # Request
    /\ requestLog' = Append(requestLog, s)
    /\ UNCHANGED <<toastVars, messageVars, resolverVars, adminAccess, mounted, hasRequest, applicationStatus,
                   rejectionReason, runs, ticks, successToasts, errorToasts,
                   navigations, polled, newest>>

\* an administrator's access is logged with its reason, at a later time
AdminAccess(reason) ==
    /\ Events < MaxEvents
    /\ adminAccess' = adminAccess \cup
           {[accessed_at |-> Cardinality(adminAccess) + 1, access_reason |-> reason]}
    /\ UNCHANGED <<toastVars, messageVars, resolverVars, requestLog, mounted, hasRequest, applicationStatus,
                   rejectionReason, runs, ticks, successToasts, errorToasts,
                   navigations, polled, newest>>

\* x || null
OrNull(x) == IF x = "" \/ x = Null THEN Null ELSE x

\* mutant: the .eq("user_id", user.id) filter is lost, some row is always found
ExistsAnswersAnyUser ==
    {[data |-> TRUE, error |-> FALSE], [data |-> FALSE, error |-> TRUE]}

\* .select("id").eq("user_id", user.id).maybeSingle(): data is the row or null
ExistsAnswers ==
    {[data |-> Request # "none", error |-> FALSE], [data |-> FALSE, error |-> TRUE]}

\* .select("status").eq("user_id", user.id).single(): no row is an error
StatusAnswers ==
    {[data |-> Null, error |-> TRUE]} \cup
    (IF Request = "none" THEN {} ELSE {[data |-> Request, error |-> FALSE]})

\* .order("accessed_at", { ascending: false }).limit(1)
LatestAccess ==
    CHOOSE a \in adminAccess : \A b \in adminAccess : b.accessed_at <= a.accessed_at

\* .select("access_reason") ... .single(): no row is an error, data null
ReasonAnswers ==
    {[data |-> Null, error |-> TRUE]} \cup
    (IF adminAccess = {} THEN {}
     ELSE {[data |-> LatestAccess.access_reason, error |-> FALSE]})

NoResp == [data |-> Null, error |-> FALSE]
DoneRun == [pc |-> "done", resp |-> NoResp]

\* what the view is handed: the three useState values of lines 57-61
Observed == <<hasRequest, applicationStatus, rejectionReason>>

\* a state setter of an unmounted component changes nothing
SetState(cur, v) == IF mounted THEN v ELSE cur

\* the effect of lines 152-156, run after a render in which a dependency changed
RedirectEffect(h, s, h2, s2) ==
    IF mounted /\ <<h, s>> # <<h2, s2>> /\ h2 /\ s2 = "rejected" THEN 1 ELSE 0

InFlight == {i \in DOMAIN runs : runs[i].pc # "done"}

\* checkStatus() up to its first await
StartRun ==
    /\ Cardinality(InFlight) < MaxInFlight
    /\ \E a \in ExistsAnswers : runs' = Append(runs, [pc |-> "exists", resp |-> a])
    /\ newest' = [got |-> "running", err |-> FALSE]

\* run i returns, having adopted `got`; `err` says that one of its queries failed
Finish(i, got, err) ==
    /\ runs' = [runs EXCEPT ![i] = DoneRun]
    /\ polled' = IF err THEN polled ELSE polled \cup {got}
    /\ newest' = IF i = Len(runs) THEN [got |-> got, err |-> err] ELSE newest

\* the component mounts: the polling effect calls checkStatus() and arms the
\* interval; the redirect effect runs with hasRequest false
Mount ==
    /\ ~mounted
    /\ runs = <<>>
    /\ mounted' = TRUE
    /\ StartRun
    /\ UNCHANGED <<toastVars, messageVars, resolverVars, requestLog, adminAccess, hasRequest, applicationStatus,
                   rejectionReason, ticks, successToasts, errorToasts, navigations,
                   polled>>

\* Tick with a cleanup that does not clear the interval: the callback keeps
\* firing after the component is gone
TickNotCancelled ==
    /\ runs # <<>>
    /\ Events < MaxEvents
    /\ ticks' = ticks + 1
    /\ StartRun
    /\ UNCHANGED <<toastVars, messageVars, resolverVars, requestLog, adminAccess, mounted, hasRequest,
                   applicationStatus, rejectionReason, successToasts, errorToasts,
                   navigations, polled>>

\* setInterval(checkStatus, 30000) fires; clearInterval in the cleanup
\* (line 148) ends that
Tick ==
    /\ mounted
    /\ Events < MaxEvents
    /\ ticks' = ticks + 1
    /\ StartRun
    /\ UNCHANGED <<toastVars, messageVars, resolverVars, requestLog, adminAccess, mounted, hasRequest,
                   applicationStatus, rejectionReason, successToasts, errorToasts,
                   navigations, polled>>

\* return () => clearInterval(interval)
Unmount ==
    /\ mounted
    /\ mounted' = FALSE
    /\ UNCHANGED <<toastVars, messageVars, resolverVars, requestLog, adminAccess, hasRequest, applicationStatus,
                   rejectionReason, runs, ticks, successToasts, errorToasts,
                   navigations, polled, newest>>

\* lines 96-106: the existence answer arrives
ResumeExists(i) ==
    LET r == runs[i] IN
    /\ r.pc = "exists"
    /\ IF r.resp.error
         THEN /\ Finish(i, "nothing", TRUE)
              /\ UNCHANGED <<hasRequest, navigations>>
         ELSE LET h2 == SetState(hasRequest, r.resp.data) IN
              /\ hasRequest' = h2
              /\ navigations' = navigations +
                     RedirectEffect(hasRequest, applicationStatus, h2, applicationStatus)
              /\ IF r.resp.data
                   THEN /\ \E a \in StatusAnswers :
                             runs' = [runs EXCEPT ![i] = [pc |-> "status", resp |-> a]]
                        /\ UNCHANGED <<polled, newest>>
                   ELSE Finish(i, "no_row", FALSE)
    /\ UNCHANGED <<toastVars, messageVars, resolverVars, requestLog, adminAccess, mounted, applicationStatus,
                   rejectionReason, ticks, successToasts, errorToasts>>

\* lines 108-137: the status answer arrives; for "rejected" the function
\* suspends again at the reason query of lines 114-120
ResumeStatus(i) ==
    LET r == runs[i] IN
    /\ r.pc = "status"
    /\ IF r.resp.error
         THEN /\ Finish(i, "row", TRUE)
              /\ UNCHANGED <<applicationStatus, navigations, successToasts>>
         ELSE LET s2 == SetState(applicationStatus, OrNull(r.resp.data)) IN
              /\ applicationStatus' = s2
              /\ navigations' = navigations +
                     RedirectEffect(hasRequest, applicationStatus, hasRequest, s2)
              /\ IF r.resp.data = "rejected"
                   THEN /\ \E a \in ReasonAnswers :
                             runs' = [runs EXCEPT ![i] = [pc |-> "reason", resp |-> a]]
                        /\ UNCHANGED <<polled, newest, successToasts>>
                   ELSE /\ Finish(i, r.resp.data, FALSE)
                        /\ successToasts' =
                             successToasts + (IF r.resp.data = "approved" THEN 1 ELSE 0)
    /\ UNCHANGED <<toastVars, messageVars, resolverVars, requestLog, adminAccess, mounted, hasRequest,
                   rejectionReason, ticks, errorToasts>>

\* lines 122-137 for "rejected": the reason answer arrives; its error is not read
ResumeReason(i) ==
    LET r == runs[i] IN
    /\ r.pc = "reason"
    /\ rejectionReason' = SetState(rejectionReason, OrNull(r.resp.data))
    /\ errorToasts' = errorToasts + 1
    /\ navigations' = navigations + 1
    /\ Finish(i, "rejected", r.resp.error)
    /\ UNCHANGED <<toastVars, messageVars, resolverVars, requestLog, adminAccess, mounted, hasRequest,
                   applicationStatus, ticks, successToasts>>

InitTracker ==
    /\ requestLog \in {<<s>> : s \in {"none"} \cup Statuses}
    /\ adminAccess = {}
    /\ mounted = FALSE
    /\ hasRequest = FALSE
    /\ applicationStatus = Null
    /\ rejectionReason = Null
    /\ runs = <<>>
    /\ ticks = 0
    /\ successToasts = 0
    /\ errorToasts = 0
    /\ navigations = 0
    /\ polled = {}
    /\ newest = [got |-> "running", err |-> FALSE]

NextTracker ==
    \/ \E s \in {"none"} \cup Statuses : RemoteChange(s)
    \/ \E reason \in Reasons : AdminAccess(reason)
    \/ Mount
    \/ Tick
    \/ Unmount
    \/ \E i \in DOMAIN runs : ResumeExists(i)
    \/ \E i \in DOMAIN runs : ResumeStatus(i)
    \/ \E i \in DOMAIN runs : ResumeReason(i)

(***************************************************************************)
(* Message page: list, fetches, push notifications, send                   *)
(***************************************************************************)
MaxWrites == 2
MaxFetches == 2
MaxActivations == 2

User == "u"
\* import { adminId } from "./AdminPanel"
AdminId == "admin"
Stamps == {1, 2}
Drafts == {"", "hi "}
Files == {"a.png"}
Subscriptions == {"effect", "component"}
\* who else writes rows: the administrator to the user, and third parties
ExternalPairs == {<<"admin", "u">>, <<"v", "admin">>}

\* rows written by others, and handleSendMessage calls, so far
Writes ==
    Cardinality({m \in store : <<m.sender_id, m.receiver_id>> \in ExternalPairs})
    + sendCount

\* String.prototype.trim on the drafts
Trim(text) == IF text = "hi " THEN "hi" ELSE ""

\* .or(`sender_id.eq.${user.id},receiver_id.eq.${user.id}`)
Mine(rows) ==
    {m \in rows : m.sender_id = currentUser \/ m.receiver_id = currentUser}

\* the orders .order("created_at", { ascending }) may return: rows with equal
\* created_at come in any order
Ordered(rows, ascending) ==
    LET n == Cardinality(rows) IN
    {q \in [1..n -> rows] :
        /\ \A i, j \in 1..n : i # j => q[i] # q[j]
        /\ \A i, j \in 1..n :
              i < j => IF ascending THEN q[i].created_at <= q[j].created_at
                                    ELSE q[i].created_at >= q[j].created_at}

\* the first effect's fetchMessages asks ascending (line 35), the component's
\* fetchMessages descending (line 129)
Ascending(kind) == kind = "effect"

\* the data of a query answer: a list of rows, or null
Rows(q) == [null |-> FALSE, rows |-> q]
NullData == [null |-> TRUE, rows |-> <<>>]

\* messages || []
OrEmpty(data) == IF data.null THEN <<>> ELSE data.rows

\* the query of fetchMessages is issued and answered; the answer is held until
\* the call resumes (two calls holding equal answers are held as one: applying
\* an answer twice is applying it once)
FetchCalls(kind) ==
    {[data |-> Rows(d), error |-> FALSE, ver |-> Cardinality(store),
      afterFail |-> lastSend = "insert_error"] :
        d \in Ordered(Mine(store), Ascending(kind))}
    \cup {[data |-> NullData, error |-> TRUE, ver |-> 0, afterFail |-> FALSE]}

\* a row is written: the backend notifies the subscriptions whose filter it meets
Notify(row) ==
    IF row.sender_id = currentUser \/ row.receiver_id = currentUser
      THEN [sub \in Subscriptions |->
               IF sub \in subscribed THEN events[sub] + 1 ELSE events[sub]]
      ELSE events

NewRow(sender, receiver, stamp, url) ==
    [id |-> Cardinality(store) + 1, created_at |-> stamp, sender_id |-> sender,
     receiver_id |-> receiver, image_url |-> url]

\* somebody else inserts a message
ExternalInsert(pair, stamp) ==
    LET row == NewRow(pair[1], pair[2], stamp, Null) IN
    /\ Writes < MaxWrites
    /\ store' = store \cup {row}
    /\ events' = Notify(row)
    /\ UNCHANGED <<toastVars, trackerVars, resolverVars, lifeVars, messages, fetches, isModalOpen,
                   newMessage, selectedFile, send, lastSend, sendCount, lastFetch>>

\* useState initial values (lines 20-23, 162), with the bookkeeping of the
\* last applied answer
FreshState ==
    /\ messages' = <<>>
    /\ isModalOpen' = FALSE
    /\ newMessage' = ""
    /\ selectedFile' = Null
    /\ lastFetch' = [ver |-> -1, afterFail |-> FALSE]

\* the page mounts: the first effect (lines 26-67) and the second effect
\* (lines 137-160) each call their fetchMessages and subscribe; `opened` are
\* the subscriptions whose subscribe() succeeded. A new instance is mounted
\* only when no handleSendMessage call of an earlier one is still running.
MsgMount(opened) ==
    /\ ~msgMounted
    /\ activation < MaxActivations
    /\ send.pc = "idle"
    /\ msgMounted' = TRUE
    /\ activation' = activation + 1
    /\ subscribed' = opened
    /\ \E f1 \in FetchCalls("effect"), f2 \in FetchCalls("component") :
           fetches' = {f1, f2}
    /\ UNCHANGED <<toastVars, trackerVars, resolverVars, store, events, messages, isModalOpen,
                   newMessage, selectedFile, send, lastSend, sendCount, lastFetch>>

\* MsgUnmount with the cleanup of the first effect missing: its subscription
\* stays open
MsgUnmountLeaks ==
    /\ msgMounted
    /\ msgMounted' = FALSE
    /\ subscribed' = subscribed \ {"component"}
    /\ events' = [sub \in Subscriptions |-> 0]
    /\ fetches' = {}
    /\ FreshState
    /\ UNCHANGED <<toastVars, trackerVars, resolverVars, store, activation, send, lastSend, sendCount>>

\* the page unmounts: the cleanups of both effects (lines 64-66, 157-159) call
\* subscription.unsubscribe(), whatever became of subscribe(); the state of the
\* instance is gone, and so are the notifications it has not handled and the
\* answers of its fetchMessages calls (setMessages of an unmounted instance
\* does nothing)
MsgUnmount ==
    /\ msgMounted
    /\ msgMounted' = FALSE
    /\ subscribed' = {}
    /\ events' = [sub \in Subscriptions |-> 0]
    /\ fetches' = {}
    /\ FreshState
    /\ UNCHANGED <<toastVars, trackerVars, resolverVars, store, activation, send, lastSend, sendCount>>

\* Deliver with a callback that patches the list from the event payload (the
\* row the event is about) instead of calling fetchMessages
DeliverPatches(sub) ==
    /\ msgMounted
    /\ events[sub] > 0
    /\ Cardinality(fetches) < MaxFetches
    /\ events' = [events EXCEPT ![sub] = @ - 1]
    /\ \E row \in Mine(store) : messages' = Append(messages, row)
    /\ UNCHANGED <<toastVars, trackerVars, resolverVars, store, lifeVars, fetches, isModalOpen,
                   newMessage, selectedFile, send, lastSend, sendCount, lastFetch>>

\* a change notification reaches the callback of one subscription (lines 57-60,
\* 151-153), which calls its fetchMessages
Deliver(sub) ==
    /\ msgMounted
    /\ events[sub] > 0
    /\ Cardinality(fetches) < MaxFetches
    /\ events' = [events EXCEPT ![sub] = @ - 1]
    /\ \E f \in FetchCalls(sub) : fetches' = fetches \cup {f}
    /\ UNCHANGED <<toastVars, trackerVars, resolverVars, store, lifeVars, messages, isModalOpen,
                   newMessage, selectedFile, send, lastSend, sendCount, lastFetch>>

\* lines 37-42 and 130-135: the answer of a fetchMessages query arrives
FetchResume(f) ==
    /\ f \in fetches
    /\ IF f.error
         THEN /\ fetches' = fetches \ {f}
              /\ UNCHANGED <<messages, lastFetch>>
         ELSE /\ messages' = OrEmpty(f.data)
              /\ fetches' = fetches \ {f}
              /\ lastFetch' = [ver |-> f.ver, afterFail |-> f.afterFail]
    /\ UNCHANGED <<toastVars, trackerVars, resolverVars, store, events, lifeVars, isModalOpen,
                   newMessage, selectedFile, send, lastSend, sendCount>>

\* the "New Message" button, the textarea, the file input, the "Cancel" button
OpenModal ==
    /\ msgMounted
    /\ ~isModalOpen
    /\ isModalOpen' = TRUE
    /\ UNCHANGED <<toastVars, trackerVars, resolverVars, store, events, lifeVars, messages, fetches,
                   newMessage, selectedFile, send, lastSend, sendCount, lastFetch>>

TypeMessage(text) ==
    /\ isModalOpen
    /\ text # newMessage
    /\ newMessage' = text
    /\ UNCHANGED <<toastVars, trackerVars, resolverVars, store, events, lifeVars, messages, fetches,
                   isModalOpen, selectedFile, send, lastSend, sendCount, lastFetch>>

handleFileSelect(file) ==
    /\ isModalOpen
    /\ selectedFile # file
    /\ selectedFile' = file
    /\ UNCHANGED <<toastVars, trackerVars, resolverVars, store, events, lifeVars, messages, fetches,
                   isModalOpen, newMessage, send, lastSend, sendCount, lastFetch>>

CancelModal ==
    /\ isModalOpen
    /\ isModalOpen' = FALSE
    /\ newMessage' = ""
    /\ selectedFile' = Null
    /\ UNCHANGED <<toastVars, trackerVars, resolverVars, store, events, lifeVars, messages, fetches,
                   send, lastSend, sendCount, lastFetch>>

IdleSend == [pc |-> "idle", file |-> Null, error |-> FALSE]

\* supabase.from("messages").insert([...]) is issued and answered: either the
\* row is written, or an error comes back and nothing is written
InsertCall(file, url) ==
    \/ /\ \E stamp \in Stamps :
            LET row == NewRow(currentUser, AdminId, stamp, url) IN
            /\ store' = store \cup {row}
            /\ events' = Notify(row)
       /\ send' = [pc |-> "insert", file |-> file, error |-> FALSE]
    \/ /\ send' = [pc |-> "insert", file |-> file, error |-> TRUE]
       /\ UNCHANGED <<store, events>>

\* handleSendMessage with an optimistic append: a local entry for the message
\* is put into the list before the upload and the insert are issued
handleSendMessageOptimistic ==
    /\ isModalOpen
    /\ Trim(newMessage) # "" \/ selectedFile # Null
    /\ send.pc = "idle"
    /\ Writes < MaxWrites
    /\ sendCount' = sendCount + 1
    /\ messages' = Append(messages, [NewRow(currentUser, AdminId, 1, Null) EXCEPT !.id = 0])
    /\ IF selectedFile # Null
         THEN /\ \E failed \in BOOLEAN :
                   send' = [pc |-> "upload", file |-> selectedFile, error |-> failed]
              /\ UNCHANGED <<store, events>>
         ELSE InsertCall(Null, Null)
    /\ UNCHANGED <<toastVars, trackerVars, resolverVars, lifeVars, fetches, isModalOpen,
                   newMessage, selectedFile, lastSend, lastFetch>>

\* the "Send" button: handleSendMessage up to its first await
handleSendMessage ==
    /\ isModalOpen
    /\ Trim(newMessage) # "" \/ selectedFile # Null
    /\ send.pc = "idle"
    /\ Writes < MaxWrites
    /\ sendCount' = sendCount + 1
    /\ IF selectedFile # Null
         THEN /\ \E failed \in BOOLEAN :
                   send' = [pc |-> "upload", file |-> selectedFile, error |-> failed]
              /\ UNCHANGED <<store, events>>
         ELSE InsertCall(Null, Null)
    /\ UNCHANGED <<toastVars, trackerVars, resolverVars, lifeVars, messages, fetches, isModalOpen,
                   newMessage, selectedFile, lastSend, lastFetch>>

\* ResumeUpload without "if (uploadError) throw uploadError": the insert is
\* issued whatever the upload answered
ResumeUploadIgnoresError ==
    /\ send.pc = "upload"
    /\ IF send.error
         THEN InsertCall(send.file, Null)
         ELSE InsertCall(send.file, "publicUrl")
    /\ UNCHANGED <<toastVars, trackerVars, resolverVars, lifeVars, messages, fetches, isModalOpen,
                   newMessage, selectedFile, sendCount, lastFetch, lastSend>>

\* lines 186-203: the upload's answer arrives
ResumeUpload ==
    /\ send.pc = "upload"
    /\ IF send.error
         THEN /\ send' = IdleSend
              /\ lastSend' = "upload_error"
              /\ UNCHANGED <<store, events>>
         ELSE /\ InsertCall(send.file, "publicUrl")
              /\ UNCHANGED lastSend
    /\ UNCHANGED <<toastVars, trackerVars, resolverVars, lifeVars, messages, fetches, isModalOpen,
                   newMessage, selectedFile, sendCount, lastFetch>>

\* ResumeInsert with the clean-up of lines 206-208 in a finally block: the
\* draft and the file are cleared and the modal is closed on failure too
ResumeInsertAlwaysClears ==
    /\ send.pc = "insert"
    /\ send' = IdleSend
    /\ lastSend' = IF send.error THEN "insert_error" ELSE "sent"
    /\ UNCHANGED messages
    /\ IF msgMounted
         THEN /\ newMessage' = ""
              /\ selectedFile' = Null
              /\ isModalOpen' = FALSE
              /\ IF send.error
                   THEN UNCHANGED fetches
                   ELSE /\ Cardinality(fetches) < MaxFetches
                        /\ \E f \in FetchCalls("component") :
                               fetches' = fetches \cup {f}
         ELSE UNCHANGED <<fetches, isModalOpen, newMessage, selectedFile>>
    /\ UNCHANGED <<toastVars, trackerVars, resolverVars, store, events, lifeVars, sendCount,
                   lastFetch>>

\* ResumeInsert with a catch block that leaves a local entry for the message
\* in the list instead of only logging
ResumeInsertKeepsEntry ==
    /\ send.pc = "insert"
    /\ send' = IdleSend
    /\ IF send.error
         THEN /\ lastSend' = "insert_error"
              /\ messages' = IF ~msgMounted THEN messages ELSE 
                   Append(messages, [NewRow(currentUser, AdminId, 1, Null) EXCEPT !.id = 0])
              /\ UNCHANGED <<fetches, isModalOpen, newMessage, selectedFile>>
         ELSE /\ lastSend' = "sent"
              /\ UNCHANGED messages
              /\ IF msgMounted
                   THEN /\ Cardinality(fetches) < MaxFetches
                        /\ newMessage' = ""
                        /\ selectedFile' = Null
                        /\ isModalOpen' = FALSE
                        /\ \E f \in FetchCalls("component") :
                               fetches' = fetches \cup {f}
                   ELSE UNCHANGED <<fetches, isModalOpen, newMessage, selectedFile>>
    /\ UNCHANGED <<toastVars, trackerVars, resolverVars, store, events, lifeVars, sendCount,
                   lastFetch>>

\* lines 205-212: the insert's answer arrives
ResumeInsert ==
    /\ send.pc = "insert"
    /\ send' = IdleSend
    /\ IF send.error
         THEN /\ lastSend' = "insert_error"
              /\ UNCHANGED <<messages, fetches, isModalOpen, newMessage, selectedFile>>
         ELSE /\ lastSend' = "sent"
              /\ UNCHANGED messages
              /\ IF msgMounted
                   THEN /\ Cardinality(fetches) < MaxFetches
                        /\ newMessage' = ""
                        /\ selectedFile' = Null
                        /\ isModalOpen' = FALSE
                        /\ \E f \in FetchCalls("component") :
                               fetches' = fetches \cup {f}
                   ELSE UNCHANGED <<fetches, isModalOpen, newMessage, selectedFile>>
    /\ UNCHANGED <<toastVars, trackerVars, resolverVars, store, events, lifeVars, sendCount,
                   lastFetch>>

InitMessages ==
    /\ store \in {{}, {[id |-> 1, created_at |-> 1, sender_id |-> "admin",
                        receiver_id |-> "u", image_url |-> Null]}}
    /\ events = [sub \in Subscriptions |-> 0]
    /\ msgMounted = FALSE
    /\ subscribed = {}
    /\ activation = 0
    /\ messages = <<>>
    /\ fetches = {}
    /\ isModalOpen = FALSE
    /\ newMessage = ""
    /\ selectedFile = Null
    /\ send = IdleSend
    /\ lastSend = "none"
    /\ sendCount = 0
    /\ lastFetch = [ver |-> -1, afterFail |-> FALSE]

\* the list and its two sources: fetches and push notifications
NextFetch ==
    \/ \E pair \in ExternalPairs, stamp \in Stamps : ExternalInsert(pair, stamp)
    \/ MsgMount(Subscriptions)
    \/ \E sub \in Subscriptions : Deliver(sub)
    \/ \E f \in fetches : FetchResume(f)

\* the compose modal and the send handler, with the fetches and the push
\* notifications the user's own rows lead to
NextSend ==
    \/ MsgMount(Subscriptions)
    \/ \E sub \in Subscriptions : Deliver(sub)
    \/ \E f \in fetches : FetchResume(f)
    \/ OpenModal
    \/ \E text \in Drafts : TypeMessage(text)
    \/ \E file \in Files : handleFileSelect(file)
    \/ CancelModal
    \/ handleSendMessage
    \/ ResumeUpload
    \/ ResumeInsert

\* mounting and unmounting of the page, with subscribe() failing or not
NextLifecycle ==
    \/ \E pair \in ExternalPairs, stamp \in Stamps : ExternalInsert(pair, stamp)
    \/ \E opened \in SUBSET Subscriptions : MsgMount(opened)
    \/ MsgUnmount
    \/ \E sub \in Subscriptions : Deliver(sub)
    \/ \E f \in fetches : FetchResume(f)

NextMessages == NextFetch \/ NextSend \/ NextLifecycle

(***************************************************************************)
(* Message page: loadAdminUser, the lookup of the conversation counterpart *)
(***************************************************************************)
MaxResolves == 2

Users == {"u", "v", "admin"}
\* the users that sign in to the page
SessionUsers == {"u", "admin"}
\* the users that can have a user_requests row
Applicants == {"u", "v"}

\* what the directory may hold: everybody, no admin, nobody but the admin
Directories == {Users, Users \ {AdminId}, {AdminId}}

\* user_metadata.role
Role(x) == IF x = AdminId THEN "admin" ELSE "user"

\* the user_requests table: status per applicant, "none" when there is no row
RequestRows == [x \in Applicants |-> IF x = User THEN Request ELSE otherRequest]

\* the users the role rule allows as counterpart of `user`, by the backend
\* state of this moment
Eligible(user) ==
    IF Role(user) = "admin"
      THEN {x \in Applicants : RequestRows[x] \in {"pending", "approved"}}
      ELSE {x \in directory : Role(x) = "admin"}

\* the first query without its .in("status", ...) filter
RequestLookupAnswersAnyStatus ==
    {[data |-> x, error |-> FALSE] : x \in {y \in Applicants : RequestRows[y] # "none"}}
    \cup {[data |-> Null, error |-> TRUE]}

\* .select("user_id").in("status", ["pending", "approved"]).limit(1).single():
\* one of the matching rows, or an error when there is none
RequestLookupAnswers ==
    {[data |-> x, error |-> FALSE] :
        x \in {y \in Applicants : RequestRows[y] \in {"pending", "approved"}}}
    \cup {[data |-> Null, error |-> TRUE]}

\* supabase.auth.admin.getUserById(user_id)
GetUserAnswers(x) ==
    {[data |-> Null, error |-> TRUE]} \cup
    (IF x \in directory THEN {[data |-> x, error |-> FALSE]} ELSE {})

\* supabase.auth.admin.listUsers(): the find of lines 101-103 applied to the
\* list, Null when it finds nobody
ListAnswers ==
    {[data |-> Null, error |-> TRUE]} \cup
    (IF \E x \in directory : Role(x) = "admin"
       THEN {[data |-> x, error |-> FALSE] : x \in {y \in directory : Role(y) = "admin"}}
       ELSE {[data |-> Null, error |-> FALSE]})

DoneResolve == [pc |-> "done", user |-> Null, resp |-> NoResp, eligible |-> {}]

ResolvesInFlight == {i \in DOMAIN resolves : resolves[i].pc # "done"}

\* loadAdminUser() of `user` up to its first await (lines 70-84, 96-97)
StartResolve(user) ==
    IF Role(user) = "admin"
      THEN \E a \in RequestLookupAnswers :
               resolves' = Append(resolves, [pc |-> "requests", user |-> user,
                                             resp |-> a, eligible |-> Eligible(user)])
      ELSE \E a \in ListAnswers :
               resolves' = Append(resolves, [pc |-> "list", user |-> user,
                                             resp |-> a, eligible |-> Eligible(user)])

\* the page mounts: the effect of lines 69-116 calls loadAdminUser()
ResolverMount ==
    /\ resolves = <<>>
    /\ StartResolve(currentUser)
    /\ UNCHANGED <<toastVars, trackerVars, messageVars, directory, otherRequest,
                   currentUser, adminUser, isLoading>>

\* another user signs in while the page is mounted: the effect runs again
\* ([user], line 116); adminUser and isLoading keep their values
ChangeUser(x) ==
    /\ resolves # <<>>
    /\ Len(resolves) < MaxResolves
    /\ x # currentUser
    /\ currentUser' = x
    /\ StartResolve(x)
    /\ UNCHANGED <<toastVars, trackerVars, messageVars, directory, otherRequest,
                   adminUser, isLoading>>

\* lines 86-90: the answer of the user_requests query arrives
ResumeRequests(i) ==
    LET r == resolves[i] IN
    /\ r.pc = "requests"
    /\ IF r.resp.error
         THEN /\ resolves' = [resolves EXCEPT ![i] = DoneResolve]
              /\ isLoading' = FALSE
         ELSE /\ \E a \in GetUserAnswers(r.resp.data) :
                     resolves' = [resolves EXCEPT ![i] = [r EXCEPT !.pc = "getUser",
                                                                   !.resp = a]]
              /\ UNCHANGED isLoading
    /\ UNCHANGED <<toastVars, trackerVars, messageVars, directory, otherRequest,
                   currentUser, adminUser>>

\* lines 92-93, 108-112: the answer of getUserById arrives
ResumeGetUser(i) ==
    LET r == resolves[i] IN
    /\ r.pc = "getUser"
    /\ adminUser' = IF r.resp.error THEN adminUser ELSE r.resp.data
    /\ isLoading' = FALSE
    /\ resolves' = [resolves EXCEPT ![i] = DoneResolve]
    /\ UNCHANGED <<toastVars, trackerVars, messageVars, directory, otherRequest,
                   currentUser>>

\* lines 99-112: the answer of listUsers arrives
ResumeList(i) ==
    LET r == resolves[i] IN
    /\ r.pc = "list"
    /\ adminUser' = IF r.resp.error \/ r.resp.data = Null THEN adminUser
                    ELSE r.resp.data
    /\ isLoading' = FALSE
    /\ resolves' = [resolves EXCEPT ![i] = DoneResolve]
    /\ UNCHANGED <<toastVars, trackerVars, messageVars, directory, otherRequest,
                   currentUser>>

InitResolver ==
    /\ directory \in Directories
    /\ otherRequest \in {"none"} \cup Statuses
    /\ currentUser \in SessionUsers
    /\ adminUser = Null
    /\ isLoading = TRUE
    /\ resolves = <<>>

NextResolver ==
    \/ \E s \in {"none"} \cup Statuses : RemoteChange(s)
    \/ ResolverMount
    \/ \E x \in SessionUsers : ChangeUser(x)
    \/ \E i \in DOMAIN resolves : ResumeRequests(i)
    \/ \E i \in DOMAIN resolves : ResumeGetUser(i)
    \/ \E i \in DOMAIN resolves : ResumeList(i)

\* the page as a whole: on mount the effects run in order (the subscriptions
\* of lines 26-67, then loadAdminUser of lines 69-116) before any click is
\* handled; then the user composes and sends while the counterpart lookup and
\* the queries are answered
NextCompose ==
    \/ MsgMount(Subscriptions)
    \/ msgMounted /\ ResolverMount
    \/ \E f \in fetches : FetchResume(f)
    \/ \E i \in DOMAIN resolves : ResumeRequests(i)
    \/ \E i \in DOMAIN resolves : ResumeGetUser(i)
    \/ \E i \in DOMAIN resolves : ResumeList(i)
    \/ resolves # <<>> /\ OpenModal
    \/ resolves # <<>> /\ \E text \in Drafts : TypeMessage(text)
    \/ resolves # <<>> /\ handleSendMessage
    \/ ResumeInsert

Init == InitToast /\ InitTracker /\ InitMessages /\ InitResolver

\* each part on its own, the backend tables of the other parts fixed
SignedInUser == directory = Users /\ otherRequest = "none" /\ currentUser = User
InitPage == Init /\ requestLog = <<"none">> /\ store = {} /\ SignedInUser
InitDashboard == Init /\ store = {} /\ SignedInUser
InitList == Init /\ requestLog = <<"none">> /\ SignedInUser
InitCounterpart == Init /\ store = {}
InitInbox ==
    Init /\ requestLog = <<"none">> /\ directory = Users /\ otherRequest = "none"

InitCompose == Init /\ requestLog = <<"none">> /\ store = {}
SpecToast == InitPage /\ [][NextToast]_vars

SpecTracker == InitDashboard /\ [][NextTracker]_vars

SpecFetch == InitInbox /\ [][NextFetch]_vars

SpecSend == InitPage /\ [][NextSend]_vars

SpecLifecycle == InitList /\ [][NextLifecycle]_vars

SpecResolver == InitCounterpart /\ [][NextResolver]_vars

SpecCompose == InitCompose /\ [][NextCompose]_vars
SpecMessages == InitList /\ [][NextMessages]_vars

Next == NextToast \/ NextTracker \/ NextMessages \/ NextResolver \/ NextCompose

Spec == Init /\ [][Next]_vars

(***************************************************************************)
(* Claims about the toast de-duplicator                                    *)
(***************************************************************************)
AlertsOf(k) == alerts[k].success + alerts[k].error

\* a ticket is active exactly while its one expiry callback is pending, and
\* the clock never passes the callback's due time while the ticket is there
TicketInv ==
    /\ \A k \in ToastKeys :
          k \in shownToasts <=> \E t \in timers : t.toastId = k
    /\ \A t1, t2 \in timers : t1.toastId = t2.toastId => t1 = t2
    /\ \A t \in timers : now <= t.due

\* what one showUniqueToast call for key k does
CallStep ==
    \A k \in ToastKeys :
        calls'[k] = calls[k] + 1 =>
            IF k \in shownToasts
              THEN /\ AlertsOf(k)' = AlertsOf(k)
                   /\ shownToasts' = shownToasts
                   /\ timers' = timers
              ELSE /\ AlertsOf(k)' = AlertsOf(k) + 1
                   /\ k \in shownToasts'
                   /\ [toastId |-> k, due |-> now + CooldownMs] \in timers'

\* a ticket goes away only at the due time of its callback, and alerts
\* are fired by calls only
RemovalStep ==
    \A k \in ToastKeys :
        /\ (k \in shownToasts /\ k \notin shownToasts') =>
               \E t \in timers : t.toastId = k /\ t.due = now
        /\ calls'[k] = calls[k] => AlertsOf(k)' = AlertsOf(k)

\* C1: a call for key k while a ticket for k is active fires no alert; a
\* call with no active ticket fires exactly one alert and creates a ticket
\* that is removed 5000 ms later; so two calls inside the cooldown give one
\* alert and a third call after the cooldown gives a second alert.
C1_Dedup == []TicketInv /\ [][CallStep /\ RemovalStep]_vars

\* three calls for "k": two inside the cooldown, the third after it, two alerts
C1_Witness ==
    /\ calls["k"] = 3
    /\ AlertsOf("k") = 2
    /\ "k" \in shownToasts
    /\ now >= CooldownMs


(***************************************************************************)
(* Claims about the message list                                           *)
(***************************************************************************)
\* C6: in every reachable state of the local message list, a message with
\* a smaller created_at stands before any message with a larger one, whichever
\* fetch produced the list.
C6_Ascending ==
    \A i, j \in DOMAIN messages :
        messages[i].created_at < messages[j].created_at => i < j

\* no two rows carry the same created_at, so the order asked for fixes the
\* answer of a query
DistinctStamps ==
    \A m1, m2 \in store : m1 # m2 => m1.created_at # m2.created_at

\* C7 (for stores without equal created_at values): a successful refresh
\* that read the same message store as the last successful refresh before it
\* (no write in between) leaves the local list as that refresh left it: same
\* messages, same order.
C7_RefreshIdempotent ==
    [][\A f \in fetches :
          (/\ DistinctStamps
           /\ ~f.error
           /\ fetches' = fetches \ {f}
           /\ messages' = OrEmpty(f.data)
           /\ f.ver = lastFetch.ver) => (messages' = messages)]_vars

\* the answer of a failed insert is handled
InsertFails == send.pc = "insert" /\ send.error /\ send'.pc = "idle"

NoDuplicates ==
    \A i, j \in DOMAIN messages : i # j => messages[i].id # messages[j].id

AllPersisted == \A i \in DOMAIN messages : messages[i] \in store

InsertSucceeds == send.pc = "insert" /\ ~send.error /\ send'.pc = "idle" /\ msgMounted

\* the rows a query answer holds
Held(f) == {f.data.rows[i] : i \in DOMAIN f.data.rows}

C20_UploadBeforeInsert ==
    [][/\ \A m \in store' \ store :
             \/ send.pc = "upload" /\ ~send.error /\ send.file # Null
                  /\ m.image_url = "publicUrl"
             \/ send.pc = "idle" /\ selectedFile = Null /\ m.image_url = Null
       /\ (send.pc = "upload" /\ send.error) =>
             (store' = store /\ send'.pc # "insert")]_vars

\* a send has written a row that carries the reference of its upload, and the
\* send after it has lost its upload and written nothing
C20_Witness ==
    /\ lastSend = "upload_error"
    /\ send.pc = "idle"
    /\ \E m \in store : m.image_url = "publicUrl"

\* the answer of a failed upload or of a failed insert is handled
SendFails == send.pc # "idle" /\ send.error /\ send'.pc = "idle"

\* C23: the step that handles the failure of a send (of its upload or of its
\* insert) leaves the draft, the selected file, the open state of the modal
\* and the local list as they are and starts no refresh; of all the steps of
\* a send only the handling of a successful insert changes any of these, and
\* it clears the draft and the file, closes the modal and starts a refresh.
C23_FailureKeepsCompose ==
    [][/\ SendFails =>
             UNCHANGED <<newMessage, selectedFile, isModalOpen, messages, fetches>>
       /\ (send' # send /\ <<newMessage, selectedFile, isModalOpen, fetches>>'
                              # <<newMessage, selectedFile, isModalOpen, fetches>>) =>
             /\ InsertSucceeds
             /\ newMessage' = "" /\ selectedFile' = Null /\ ~isModalOpen'
             /\ fetches' # {}]_vars

\* a send has failed, and the modal is still open with the draft and the file
\* the user had entered
C23_Witness ==
    /\ send.pc = "idle"
    /\ lastSend \in {"upload_error", "insert_error"}
    /\ isModalOpen
    /\ Trim(newMessage) # ""
    /\ selectedFile # Null

\* C11: no subscription of a deactivated instance remains open: whenever the
\* page is not mounted, whatever mounts and unmounts came before and whether
\* or not subscribe() succeeded, no subscription is open.
C11_Unsubscribed == ~msgMounted => subscribed = {}

\* the page has been mounted twice and is unmounted again, with rows in the
\* table
C11_Witness ==
    /\ ~msgMounted
    /\ activation = 2
    /\ store # {}

\* C21: in every step in which the callback of an open subscription handles a
\* change event, a fetchMessages call of that subscription is started (its
\* query is issued and its answer is awaited), and the local list is left as
\* it was: the list changes only when the answer of a query arrives.
C21_EventStartsRefresh ==
    [][\A sub \in Subscriptions :
          (events'[sub] < events[sub] /\ msgMounted') =>
              /\ sub \in subscribed
              /\ messages' = messages
              /\ \E f \in FetchCalls(sub) : f \in fetches']_vars

\* an answer has been applied, and a query issued from rows written after
\* that is in flight: the mount-time queries all saw the same table, so this
\* one was started by the callback of a subscription
C21_Witness ==
    /\ msgMounted
    /\ subscribed # {}
    /\ lastFetch.ver >= 0
    /\ \E f \in fetches : ~f.error /\ f.ver > lastFetch.ver

\* C22: every row that a send writes has the current user as its sender and,
\* as its receiver, the counterpart resolved at that moment; in particular no
\* row is written while no counterpart is resolved.
C22_AddressedToCounterpart ==
    [][\A m \in store' \ store :
          /\ m.sender_id = currentUser
          /\ adminUser # Null
          /\ m.receiver_id = adminUser]_vars

\* C17 (what it says whoever the counterpart is): all messages of the local
\* list belong to one conversation, that of the user with one other user.
C17_OneConversation ==
    \E c \in Users :
        \A i \in DOMAIN messages :
            {messages[i].sender_id, messages[i].receiver_id} = {currentUser, c}

(***************************************************************************)
(* Claims about the counterpart lookup                                     *)
(***************************************************************************)
\* loadAdminUser invocation i returns in this step
Returns(i) ==
    /\ i \in DOMAIN resolves
    /\ resolves[i].pc # "done"
    /\ resolves'[i].pc = "done"

AllResolved == resolves # <<>> /\ ResolvesInFlight = {}

C16_ErrorGivesNone ==
    [][\A i \in DOMAIN resolves :
          (Returns(i) /\ resolves[i].resp.error) =>
              (adminUser' = Null /\ isLoading' = FALSE)]_vars

(***************************************************************************)
(* Claims about the application status poller                              *)
(***************************************************************************)
\* the state the tracker shows, from the values the view renders on
\* (lines 157, 168, 215)
TrackerState ==
    IF hasRequest /\ applicationStatus \in Statuses THEN applicationStatus
    ELSE IF hasRequest \/ "no_row" \notin polled THEN "loading"
    ELSE "no_request"

AllReturned == runs # <<>> /\ InFlight = {}

\* the backend row itself only moves none -> pending -> approved | rejected
BackendLifecycle(log) ==
    \A n \in 1..(Len(log) - 1) :
        <<log[n], log[n + 1]>> \in
            {<<"none", "pending">>, <<"pending", "approved">>, <<"pending", "rejected">>}

\* C2 (its closing clause, and only for backends whose row never moves
\* backwards; a step that breaks it is also a step along none of the claim's
\* edges): once the tracker has reported approved or rejected, it never
\* afterwards reports pending or loading.
C2_NoRegress ==
    [][(BackendLifecycle(requestLog') /\ TrackerState \in {"approved", "rejected"}) =>
           (TrackerState' \notin {"pending", "loading"})]_vars

\* C3: when the request goes from pending to approved between two polls,
\* exactly one success notification is fired over all later polls, and no
\* redirect is requested.
C3_OneSuccessToast ==
    (requestLog = <<"pending", "approved">> /\ "pending" \in polled /\ mounted) =>
        /\ successToasts <= 1
        /\ "approved" \in polled => successToasts = 1
        /\ navigations = 0

\* C4: when the request goes from pending to rejected with a stored reason r,
\* the tracker ends up reporting rejected with rejectionReason = r, and
\* navigate("/") is called exactly once, whatever polls and renders follow.
C4_OneRedirect ==
    (/\ requestLog = <<"pending", "rejected">>
     /\ "pending" \in polled
     /\ mounted
     /\ adminAccess # {}
     /\ OrNull(LatestAccess.access_reason) # Null) =>
        /\ navigations <= 1
        /\ "rejected" \in polled =>
              /\ navigations = 1
              /\ TrackerState = "rejected"
              /\ rejectionReason = LatestAccess.access_reason

C9_NewestWins ==
    (/\ BackendLifecycle(requestLog)
     /\ mounted
     /\ Len(runs) >= 2
     /\ AllReturned
     /\ ~newest.err) =>
        /\ newest.got = "no_row" => ~hasRequest
        /\ newest.got \in Statuses =>
              hasRequest /\ applicationStatus = newest.got

\* C10 (for the first run of an activation, where the state before the run
\* is the initial one): if a query of the run returned an error, then after
\* the run hasRequest, applicationStatus and rejectionReason are what they
\* were before it, and the run fired no toast and no redirect.
C10_ErrorKeepsState ==
    (Len(runs) = 1 /\ AllReturned /\ newest.err) =>
        /\ Observed = <<FALSE, Null, Null>>
        /\ successToasts = 0
        /\ errorToasts = 0
        /\ navigations = 0

\* the component was mounted and its cleanup has run
Deactivated == ~mounted /\ runs # <<>>

\* C13: a checkStatus run that resumes after the component was deactivated
\* changes no tracker state, fires no toast and calls no navigate.
C13_DiscardAfterDeactivation ==
    [][Deactivated =>
          (/\ Observed' = Observed
           /\ successToasts' = successToasts
           /\ errorToasts' = errorToasts
           /\ navigations' = navigations)]_vars

\* C14 (its closing clause): once a checkStatus run has observed approved or
\* rejected, no further run is started for that activation.
C14_StopsAtTerminal ==
    [][(polled \cap {"approved", "rejected"} # {}) => (Len(runs') = Len(runs))]_vars

\* C15: after the cleanup of the polling effect has run, the interval never
\* fires again and the deactivated instance starts no checkStatus run.
C15_NoRunAfterCleanup ==
    [][Deactivated => (Len(runs') = Len(runs) /\ ticks' = ticks)]_vars

\* the interval has fired, the cleanup has run, and the event budget would
\* still let the interval fire
C15_Witness ==
    /\ Deactivated
    /\ ticks >= 1
    /\ Events < MaxEvents

\* C19 (its closing clause): when the tracker has reported rejected with a
\* reason and a step makes it report anything else, the reason is no longer
\* held after that step.
C19_ReasonOnlyWhenRejected ==
    [][(/\ TrackerState = "rejected"
        /\ rejectionReason # Null
        /\ TrackerState' # "rejected") => (rejectionReason' = Null)]_vars

====
